---- MODULE Spec2Model ----
(***************************************************************************)
(* A model of custom-error-creator (src/index.js): createErrorClass builds *)
(* an error family from a definition {code, message, status}; the family's *)
(* constructor resolves up to three positional arguments into a message,   *)
(* a parameter object and a cause, interpolates the message and calls the  *)
(* Error constructor.                                                      *)
(*                                                                         *)
(* A JavaScript string is a sequence of one-character strings.  A          *)
(* JavaScript value is a record [t |-> <typeof-like tag>, v |-> payload].  *)
(* A plain object's payload is a function from its own enumerable keys     *)
(* (strings) to values.                                                    *)
(***************************************************************************)
EXTENDS Integers, Sequences, FiniteSets, TLC

VARIABLES families, instances, thrown, call

vars == <<families, instances, thrown, call>>

(***************************************************************************)
(* Bounds of the model.                                                    *)
(***************************************************************************)
MaxCodeLen == 3
MaxPieces == 3
MaxFamilies == 2
MaxInstances == 2

(***************************************************************************)
(* Characters.                                                             *)
(***************************************************************************)
UpperLetters ==
    <<"A","B","C","D","E","F","G","H","I","J","K","L","M",
      "N","O","P","Q","R","S","T","U","V","W","X","Y","Z">>

LowerLetters ==
    <<"a","b","c","d","e","f","g","h","i","j","k","l","m",
      "n","o","p","q","r","s","t","u","v","w","x","y","z">>

Digits == <<"0","1","2","3","4","5","6","7","8","9">>

Range(f) == {f[i] : i \in DOMAIN f}

IndexOf(seq, c) == CHOOSE i \in DOMAIN seq : seq[i] = c

\* String.prototype.toLowerCase on one (ASCII) character
CharToLower(c) ==
    IF c \in Range(UpperLetters) THEN LowerLetters[IndexOf(UpperLetters, c)] ELSE c

\* String.prototype.toUpperCase on one (ASCII) character
CharToUpper(c) ==
    IF c \in Range(LowerLetters) THEN UpperLetters[IndexOf(LowerLetters, c)] ELSE c

toLowerCase(s) == [i \in DOMAIN s |-> CharToLower(s[i])]

toUpperCase(s) == [i \in DOMAIN s |-> CharToUpper(s[i])]

\* the regular expression class \w: [A-Za-z0-9_]
IsWordChar(c) ==
    c \in Range(UpperLetters) \cup Range(LowerLetters) \cup Range(Digits) \cup {"_"}

(***************************************************************************)
(* toPascalCase (src/index.js 1-7), computed as the code computes it:      *)
(* lowercase the whole string, split on "_", capitalize each word, join.   *)
(***************************************************************************)
RECURSIVE SplitFrom(_, _, _, _)
\* the words of s from position i on, cur being the word read so far
SplitFrom(s, sep, i, cur) ==
    IF i > Len(s) THEN <<cur>>
    ELSE IF s[i] = sep THEN <<cur>> \o SplitFrom(s, sep, i + 1, <<>>)
    ELSE SplitFrom(s, sep, i + 1, Append(cur, s[i]))

\* String.prototype.split with a one-character separator
split(s, sep) == SplitFrom(s, sep, 1, <<>>)

\* word.charAt(0): the empty string when the word is empty
charAt0(word) == IF Len(word) = 0 THEN <<>> ELSE <<word[1]>>

\* word.slice(1)
slice1(word) == IF Len(word) = 0 THEN <<>> ELSE Tail(word)

\* (word) => word.charAt(0).toUpperCase() + word.slice(1), with a mutant that
\* forgets to capitalize
CapitalizeWordNotCapitalized(word) == word

CapitalizeWord(word) == toUpperCase(charAt0(word)) \o slice1(word)

RECURSIVE join(_)
\* Array.prototype.join("")
join(words) == IF Len(words) = 0 THEN <<>> ELSE Head(words) \o join(Tail(words))

toPascalCase(screamingSnake) ==
    LET words == split(toLowerCase(screamingSnake), "_")
    IN  join([i \in DOMAIN words |-> CapitalizeWord(words[i])])

(***************************************************************************)
(* JavaScript values.                                                      *)
(***************************************************************************)
Undefined == [t |-> "undefined", v |-> <<>>]

Null == [t |-> "null", v |-> <<>>]

Bool(b) == [t |-> "boolean", v |-> b]

Num(n) == [t |-> "number", v |-> n]

Str(s) == [t |-> "string", v |-> s]

\* a plain object literal: o is a function from own enumerable keys to values
Obj(o) == [t |-> "object", v |-> o]

\* an Error instance with the given message (used as a cause)
ErrorValue(m) == [t |-> "error", v |-> m]

\* a built-in function inherited from Object.prototype, named n
NativeFunction(n) == [t |-> "function", v |-> n]

\* typeof x === "object" && x !== null
IsObject(x) == x.t \in {"object", "error"}

\* the names every plain object inherits from Object.prototype
ObjectPrototypeKeys ==
    { <<"c","o","n","s","t","r","u","c","t","o","r">>,
      <<"h","a","s","O","w","n","P","r","o","p","e","r","t","y">>,
      <<"i","s","P","r","o","t","o","t","y","p","e","O","f">>,
      <<"p","r","o","p","e","r","t","y","I","s","E","n","u","m","e","r","a","b","l","e">>,
      <<"t","o","L","o","c","a","l","e","S","t","r","i","n","g">>,
      <<"t","o","S","t","r","i","n","g">>,
      <<"v","a","l","u","e","O","f">>,
      <<"_","_","p","r","o","t","o","_","_">>,
      <<"_","_","d","e","f","i","n","e","G","e","t","t","e","r","_","_">>,
      <<"_","_","d","e","f","i","n","e","S","e","t","t","e","r","_","_">>,
      <<"_","_","l","o","o","k","u","p","G","e","t","t","e","r","_","_">>,
      <<"_","_","l","o","o","k","u","p","S","e","t","t","e","r","_","_">> }

\* the value a plain object inherits under key k of ObjectPrototypeKeys
ObjectPrototypeGet(k) ==
    IF k = <<"_","_","p","r","o","t","o","_","_">> THEN Obj(<<>>)
    ELSE IF k = <<"c","o","n","s","t","r","u","c","t","o","r">>
         THEN NativeFunction(<<"O","b","j","e","c","t">>)
    ELSE NativeFunction(k)

\* the own enumerable keys of a value (an Error instance has none: its
\* message and stack are not enumerable)
OwnKeys(obj) == IF obj.t = "object" THEN DOMAIN obj.v ELSE {}

\* `key in obj` for a plain object: own keys and the prototype chain
HasProperty(obj, key) == key \in OwnKeys(obj) \/ key \in ObjectPrototypeKeys

\* `obj[key]` for a plain object
Get(obj, key) ==
    IF key \in OwnKeys(obj) THEN obj.v[key]
    ELSE IF key \in ObjectPrototypeKeys THEN ObjectPrototypeGet(key)
    ELSE Undefined

RECURSIVE NatToString(_)
\* the decimal digits of a natural number
NatToString(n) ==
    IF n < 10 THEN <<Digits[n + 1]>>
    ELSE NatToString(n \div 10) \o <<Digits[(n % 10) + 1]>>

\* the string conversion String.prototype.replace applies to what the
\* replacer function returns
ToStr(x) ==
    CASE x.t = "string" -> x.v
      [] x.t = "undefined" -> <<"u","n","d","e","f","i","n","e","d">>
      [] x.t = "null" -> <<"n","u","l","l">>
      [] x.t = "boolean" ->
            IF x.v THEN <<"t","r","u","e">> ELSE <<"f","a","l","s","e">>
      [] x.t = "number" -> NatToString(x.v)
      [] x.t = "object" ->
            <<"[","o","b","j","e","c","t"," ","O","b","j","e","c","t","]">>
      [] x.t = "error" -> <<"E","r","r","o","r",":"," ">> \o x.v
      [] x.t = "function" ->
            <<"f","u","n","c","t","i","o","n"," ">> \o x.v
            \o <<"(",")"," ","{"," ","[","n","a","t","i","v","e"," ",
                 "c","o","d","e","]"," ","}">>

(***************************************************************************)
(* The regular expression /\{(\w+)\}/g (src/index.js 10 and 18).           *)
(***************************************************************************)
RECURSIVE WordRunEnd(_, _)
\* the index of the last character of the longest run of \w from position i
\* (i - 1 when there is none)
WordRunEnd(s, i) ==
    IF i <= Len(s) /\ IsWordChar(s[i]) THEN WordRunEnd(s, i + 1) ELSE i - 1

\* the index of the closing brace of the match of \{(\w+)\} that starts at
\* position i, 0 when there is no match at i
MatchEnd(s, i) ==
    IF s[i] # "{" THEN 0
    ELSE LET e == WordRunEnd(s, i + 1)
         IN  IF e >= i + 1 /\ e + 1 <= Len(s) /\ s[e + 1] = "}" THEN e + 1 ELSE 0

RECURSIVE MatchAllFrom(_, _)
\* message.matchAll(/\{(\w+)\}/g): the captured keys, left to right
MatchAllFrom(s, i) ==
    IF i > Len(s) THEN <<>>
    ELSE LET e == MatchEnd(s, i)
         IN  IF e > 0 THEN <<SubSeq(s, i + 1, e - 1)>> \o MatchAllFrom(s, e + 1)
             ELSE MatchAllFrom(s, i + 1)

matchAll(s) == MatchAllFrom(s, 1)

(***************************************************************************)
(* interpolate (src/index.js 9-13).                                        *)
(***************************************************************************)
\* a mutant that expands a value which is itself a placeholder once more
ReplacerExpanding(match, key, params) ==
    IF HasProperty(params, key)
    THEN LET v == ToStr(Get(params, key))
             inner == SubSeq(v, 2, Len(v) - 1)
         IN  IF Len(v) > 2 /\ MatchEnd(v, 1) = Len(v) /\ HasProperty(params, inner)
             THEN ToStr(Get(params, inner))
             ELSE v
    ELSE match

\* the replacer (match, key) => key in params ? params[key] : match
Replacer(match, key, params) ==
    IF HasProperty(params, key) THEN ToStr(Get(params, key)) ELSE match

RECURSIVE ReplaceFrom(_, _, _)
\* template.replace(/\{(\w+)\}/g, replacer) from position i on
ReplaceFrom(s, i, params) ==
    IF i > Len(s) THEN <<>>
    ELSE LET e == MatchEnd(s, i)
         IN  IF e > 0
             THEN Replacer(SubSeq(s, i, e), SubSeq(s, i + 1, e - 1), params)
                  \o ReplaceFrom(s, e + 1, params)
             ELSE <<s[i]>> \o ReplaceFrom(s, i + 1, params)

interpolate(template, params) == ReplaceFrom(template, 1, params)

(***************************************************************************)
(* validateMessage (src/index.js 15-26).                                   *)
(***************************************************************************)
RESERVED_PARAMS == { <<"c","a","u","s","e">> }

NoThrow == [kind |-> "none"]

\* throw new Error(`Error definition "${code}" uses reserved parameter name ...`)
DefinitionError(code, key) == [kind |-> "Error", code |-> code, key |-> key]

\* the keys matchAll yields that the loop of validateMessage throws on, with a
\* mutant that looks at the first placeholder only
ReservedKeysFirstOnly(keys) ==
    {i \in DOMAIN keys : i = 1 /\ keys[i] \in RESERVED_PARAMS}

ReservedKeys(keys) == {i \in DOMAIN keys : keys[i] \in RESERVED_PARAMS}

\* what validateMessage throws (NoThrow when it returns)
validateMessage(code, message) ==
    LET keys == matchAll(message)
        bad == ReservedKeys(keys)
    IN  IF bad = {} THEN NoThrow
        ELSE DefinitionError(code, keys[CHOOSE i \in bad : \A j \in bad : i <= j])

(***************************************************************************)
(* createErrorClass (src/index.js 28-79).                                  *)
(***************************************************************************)
Cause == <<"c","a","u","s","e">>

\* the truthiness of a value, as in `params ? ... : ...`
Truthy(x) ==
    CASE x.t \in {"undefined", "null"} -> FALSE
      [] x.t = "boolean" -> x.v
      [] x.t = "number" -> x.v # 0
      [] x.t = "string" -> Len(x.v) > 0
      [] OTHER -> TRUE

\* x.key for a value x that is neither undefined nor null: a plain object
\* yields its property, every other value modelled has no such property
GetMember(x, key) == IF x.t = "object" THEN Get(x, key) ELSE Undefined

\* x?.cause
OptionalCause(x) ==
    IF x.t \in {"undefined", "null"} THEN Undefined ELSE GetMember(x, Cause)

TypeError == [kind |-> "TypeError"]

Resolved(params, cause) == [params |-> params, cause |-> cause, thrown |-> NoThrow]

\* lines 45-48: the first argument is the parameter object; with a mutant that
\* drops the options argument
FirstArgFormNoCause(a1, a2) == Resolved(a1, Undefined)

\* a mutant that lets a cause key of the parameter object win
FirstArgFormCauseFromParams(a1, a2) ==
    Resolved(a1, IF Cause \in OwnKeys(a1) THEN Get(a1, Cause) ELSE OptionalCause(a2))

FirstArgForm(a1, a2) == Resolved(a1, OptionalCause(a2))

\* lines 50-53: new Err("msg", params, opts); opts.cause throws a TypeError
\* when opts is null; with a mutant that reads the cause from the wrong argument
ThreeArgFormCauseFromParams(a2, a3) == Resolved(a2, GetMember(a2, Cause))

ThreeArgForm(a2, a3) ==
    IF a3.t = "null"
    THEN [params |-> a2, cause |-> Undefined, thrown |-> TypeError]
    ELSE Resolved(a2, GetMember(a3, Cause))

\* const { cause: extractedCause, ...rest } = paramsOrOpts: the own enumerable
\* properties other than cause
RestOf(obj) == [k \in OwnKeys(obj) \ {Cause} |-> obj.v[k]]

\* lines 54-58: the object has a cause key; with a mutant that does not take
\* the cause out of the parameters
MixedFormKeepsCause(a2) == Resolved(a2, Get(a2, Cause))

\* a mutant that passes the rest object on even when it is empty
MixedFormEmptyRest(a2) == Resolved(Obj(RestOf(a2)), Get(a2, Cause))

MixedForm(a2) ==
    LET rest == RestOf(a2)
    IN  Resolved(IF Cardinality(DOMAIN rest) > 0 THEN Obj(rest) ELSE Undefined,
                 Get(a2, Cause))

\* lines 59-62: a pure parameter object; with a mutant that drops it
PureParamsFormDropped(a2) == Resolved(Undefined, Undefined)

PureParamsForm(a2) == Resolved(a2, Undefined)

\* lines 49-63: the second argument is an object and the first is not; with a
\* mutant that looks for the cause key before it looks at the third argument
SecondArgFormCauseKeyFirst(a2, a3) ==
    IF HasProperty(a2, Cause) THEN MixedForm(a2)
    ELSE IF a3 # Undefined THEN ThreeArgForm(a2, a3)
    ELSE PureParamsForm(a2)

SecondArgForm(a2, a3) ==
    IF a3 # Undefined THEN ThreeArgForm(a2, a3)
    ELSE IF HasProperty(a2, Cause) THEN MixedForm(a2)
    ELSE PureParamsForm(a2)

\* lines 40-63: the message and the resolution of the positional arguments
ResolveArgs(defaultMessage, a1, a2, a3) ==
    LET message == IF a1.t = "string" THEN a1.v ELSE defaultMessage
        r == IF IsObject(a1) THEN FirstArgForm(a1, a2)
             ELSE IF IsObject(a2) THEN SecondArgForm(a2, a3)
             ELSE Resolved(Undefined, Undefined)
    IN  [message |-> message, params |-> r.params, cause |-> r.cause,
         thrown |-> r.thrown]

\* line 66: params ? interpolate(message, params) : message
SuperMessage(message, params) ==
    IF Truthy(params) THEN interpolate(message, params) ELSE message

\* line 67: cause !== undefined ? { cause } : undefined; with a mutant that
\* tests the truthiness of the cause
SuperOptionsTruthy(cause) ==
    IF Truthy(cause) THEN Obj([k \in {Cause} |-> cause]) ELSE Undefined

SuperOptions(cause) ==
    IF cause # Undefined THEN Obj([k \in {Cause} |-> cause]) ELSE Undefined

\* the built-in Error(message, options): the message, and an own cause
\* property when options is an object with a cause property
ErrorBase(message, options) ==
    LET has == options.t = "object" /\ HasProperty(options, Cause)
    IN  [message |-> message,
         hasCause |-> has,
         cause |-> IF has THEN Get(options, Cause) ELSE Undefined]

\* lines 35-37: the class fields; with a mutant that leaves the name of Error
ClassFieldsNoName(klass) ==
    [code |-> klass.code, status |-> klass.status, name |-> <<"E","r","r","o","r">>]

ClassFields(klass) ==
    [code |-> klass.code, status |-> klass.status, name |-> klass.className]

\* lines 39-73: new ErrorKlass(messageOrParams, paramsOrOpts, opts), klass
\* being the closure of createErrorClass and id the identity of the family
Construct(id, klass, messageOrParams, paramsOrOpts, opts) ==
    LET r == ResolveArgs(klass.defaultMessage, messageOrParams, paramsOrOpts, opts)
        base == ErrorBase(SuperMessage(r.message, r.params), SuperOptions(r.cause))
        fields == ClassFields(klass)
    IN  [thrown |-> r.thrown,
         resolved |-> r,
         instance |-> [family |-> id,
                       code |-> fields.code,
                       status |-> fields.status,
                       name |-> fields.name,
                       message |-> base.message,
                       hasCause |-> base.hasCause,
                       cause |-> base.cause]]

\* lines 28-79: what createErrorClass throws and the family it returns;
\* staticName is the name property line 76 defines on the class
createErrorClass(definition) ==
    LET className == toPascalCase(definition.code)
        t == validateMessage(definition.code, definition.message)
    IN  [thrown |-> t,
         klass |-> [code |-> definition.code,
                    defaultMessage |-> definition.message,
                    status |-> definition.status,
                    className |-> className,
                    staticName |-> className]]

K_name == <<"n","a","m","e">>

K_code == <<"c","o","d","e">>

K_status == <<"s","t","a","t","u","s">>

\* ErrorKlass[key] for the keys name and code: the class declares no static
\* field (lines 34-74), line 76 defines name, nothing defines code
StaticProperty(klass, key) ==
    IF key = K_name THEN Str(klass.staticName) ELSE Undefined

\* the constructors an instance can be tested against with instanceof
ErrorCtor == [kind |-> "Error", id |-> 0]

FamilyCtor(f) == [kind |-> "family", id |-> f]

\* the constructors on the prototype chain of an instance: every call of
\* createErrorClass evaluates `class extends Error` anew (line 34); with a
\* mutant in which all families are one class
PrototypeChainSharedClass(instance) == {FamilyCtor(1), ErrorCtor}

PrototypeChain(instance) == {FamilyCtor(instance.family), ErrorCtor}

\* instance instanceof ctor
InstanceOf(instance, ctor) == ctor \in PrototypeChain(instance)

(***************************************************************************)
(* Strings of the inputs.                                                  *)
(***************************************************************************)
S_NOT_FOUND == <<"N","O","T","_","F","O","U","N","D">>

S_NotFound == <<"N","o","t","F","o","u","n","d">>

S_INTERNAL_SERVER_ERROR == <<"I","N","T","E","R","N","A","L","_","S","E","R","V","E","R","_","E","R","R","O","R">>

S_InternalServerError == <<"I","n","t","e","r","n","a","l","S","e","r","v","e","r","E","r","r","o","r">>

S_UNAUTHORIZED == <<"U","N","A","U","T","H","O","R","I","Z","E","D">>

S_VALIDATION_ERROR == <<"V","A","L","I","D","A","T","I","O","N","_","E","R","R","O","R">>

S_BAD_REQUEST == <<"B","A","D","_","R","E","Q","U","E","S","T">>

S_a_and_b == <<"{","a","}"," ","a","n","d"," ","{","b","}">>

S_hello == <<"h","e","l","l","o">>

S_hello_and_b == <<"h","e","l","l","o"," ","a","n","d"," ","{","b","}">>

S_x_happened == <<"{","x","}"," ","h","a","p","p","e","n","e","d">>

S_something == <<"s","o","m","e","t","h","i","n","g">>

S_something_happened == <<"s","o","m","e","t","h","i","n","g"," ","h","a","p","p","e","n","e","d">>

S_a_bar_cause == <<"{","a","}","|","{","c","a","u","s","e","}">>

S_ok == <<"o","k">>

S_failed_cause == <<"F","a","i","l","e","d"," ","b","e","c","a","u","s","e"," ","{","c","a","u","s","e","}">>

S_root == <<"r","o","o","t">>

S_valueOf == <<"{","v","a","l","u","e","O","f","}">>

K_a == <<"a">>

K_b == <<"b">>

K_x == <<"x">>

RECURSIVE SeqsUpTo(_, _)
\* the sequences of at most n elements of S
SeqsUpTo(S, n) ==
    IF n = 0 THEN {<<>>}
    ELSE LET shorter == SeqsUpTo(S, n - 1)
         IN  shorter \cup {Append(p, e) : p \in shorter, e \in S}

RECURSIVE Flatten(_)
\* the concatenation of a sequence of strings
Flatten(ps) == IF Len(ps) = 0 THEN <<>> ELSE Head(ps) \o Flatten(Tail(ps))

\* the strings made of at most n of the given pieces
Pieced(pieces, n) == {Flatten(ps) : ps \in SeqsUpTo(pieces, n)}

(***************************************************************************)
(* Name derivation on its own: the codes over a small alphabet and the     *)
(* codes of the test suite.                                                *)
(***************************************************************************)
CodeAlphabet == {"A", "B", "_", "1", "c"}

ExampleCodes ==
    {S_NOT_FOUND, S_UNAUTHORIZED, S_VALIDATION_ERROR, S_INTERNAL_SERVER_ERROR,
     S_BAD_REQUEST}

Codes == (SeqsUpTo(CodeAlphabet, MaxCodeLen) \ {<<>>}) \cup ExampleCodes

Idle == families = <<>> /\ instances = <<>> /\ thrown = NoThrow

InitName == Idle /\ call \in {[op |-> "code", code |-> c] : c \in Codes}

DeriveName ==
    /\ call.op = "code"
    /\ call' = [op |-> "toPascalCase", code |-> call.code,
                result |-> toPascalCase(call.code)]
    /\ UNCHANGED <<families, instances, thrown>>

NextName == DeriveName

SpecName == InitName /\ [][NextName]_vars

\* the name the specification describes, character by character: underscores
\* go, a character that starts a segment is lowercased then uppercased, every
\* other character is lowercased
SegmentwiseName(code) ==
    LET marked == [i \in DOMAIN code |->
                     IF code[i] = "_" THEN "_"
                     ELSE IF i = 1 \/ code[i - 1] = "_"
                          THEN CharToUpper(CharToLower(code[i]))
                          ELSE CharToLower(code[i])]
        NotUnderscore(c) == c # "_"
    IN  SelectSeq(marked, NotUnderscore)

\* C4: for every code, the derived name is the code split on underscores, each
\* segment lowercased and its first character uppercased, concatenated with no
\* separator; NOT_FOUND gives NotFound and INTERNAL_SERVER_ERROR gives
\* InternalServerError.
C4_NameDerivation ==
    call.op = "toPascalCase" =>
        /\ call.result = SegmentwiseName(call.code)
        /\ call.code = S_NOT_FOUND => call.result = S_NotFound
        /\ call.code = S_INTERNAL_SERVER_ERROR => call.result = S_InternalServerError

C4_Witness ==
    /\ call.op = "toPascalCase"
    /\ call.code = S_INTERNAL_SERVER_ERROR
    /\ call.result = S_InternalServerError

(***************************************************************************)
(* interpolate on its own: templates made of a few pieces, parameter       *)
(* objects over the keys a and b.                                          *)
(***************************************************************************)
TemplatePieces ==
    { <<"{","a","}">>, <<"{","b","}">>, S_valueOf, <<"{">>, <<"}">>,
      <<" ","a","n","d"," ">> }

Templates == Pieced(TemplatePieces, MaxPieces)

ParamValues == {S_hello, <<"{","b","}">>, <<>>}

\* the plain objects whose keys are among keys and whose values are among values
ObjectsOver(keys, values) ==
    UNION {{Obj(f) : f \in [ks -> values]} : ks \in SUBSET keys}

ParamObjects == ObjectsOver({K_a, K_b}, {Str(v) : v \in ParamValues})

InitInterpolate ==
    /\ Idle
    /\ call \in {[op |-> "template", template |-> t, params |-> p] :
                    t \in Templates, p \in ParamObjects}

Interpolate ==
    /\ call.op = "template"
    /\ call' = [op |-> "interpolate", template |-> call.template,
                params |-> call.params,
                result |-> interpolate(call.template, call.params)]
    /\ UNCHANGED <<families, instances, thrown>>

NextInterpolate == Interpolate

SpecInterpolate == InitInterpolate /\ [][NextInterpolate]_vars

RECURSIVE ByOwnKeysFrom(_, _, _)
\* the template from position i on, each {name} whose name is an own key of
\* params replaced by that key's value and every other character kept
ByOwnKeysFrom(s, i, params) ==
    IF i > Len(s) THEN <<>>
    ELSE LET e == MatchEnd(s, i)
             key == SubSeq(s, i + 1, e - 1)
         IN  IF e > 0 /\ key \in DOMAIN params.v
             THEN params.v[key].v \o ByOwnKeysFrom(s, e + 1, params)
             ELSE <<s[i]>> \o ByOwnKeysFrom(s, i + 1, params)

\* C6: interpolate(template, params) replaces every {name} whose name is a key
\* of params by that key's value and leaves every {name} whose name is not a
\* key of params unchanged; "{a} and {b}" with {a: "hello"} gives
\* "hello and {b}".
C6_Interpolate ==
    call.op = "interpolate" =>
        call.result = ByOwnKeysFrom(call.template, 1, call.params)

\* the same, for the templates that name no property of Object.prototype
C6_InterpolateNoInherited ==
    (call.op = "interpolate"
        /\ \A k \in Range(matchAll(call.template)) : k \notin ObjectPrototypeKeys)
    => call.result = ByOwnKeysFrom(call.template, 1, call.params)

C6_Example ==
    (call.op = "interpolate" /\ call.template = S_a_and_b
        /\ call.params = Obj([k \in {K_a} |-> Str(S_hello)]))
    => call.result = S_hello_and_b

C6_ExampleReached ==
    /\ call.op = "interpolate"
    /\ call.template = S_a_and_b
    /\ call.params = Obj([k \in {K_a} |-> Str(S_hello)])

(***************************************************************************)
(* The steps of the library: building a family and constructing an         *)
(* instance.  families holds the families built so far, instances the      *)
(* instances constructed so far, thrown what the last call threw.          *)
(***************************************************************************)
\* createErrorClass(definition): the family is returned only when nothing is
\* thrown
BuildStep(definition) ==
    LET r == createErrorClass(definition)
    IN  /\ thrown' = r.thrown
        /\ families' = IF r.thrown = NoThrow THEN Append(families, r.klass)
                       ELSE families
        /\ UNCHANGED instances

\* new families[f](a1, a2, a3)
NewStep(f, a1, a2, a3) ==
    LET r == Construct(f, families[f], a1, a2, a3)
    IN  /\ thrown' = r.thrown
        /\ instances' = IF r.thrown = NoThrow THEN Append(instances, r.instance)
                        ELSE instances
        /\ UNCHANGED families

\* a mutant in which the mixed form takes the cause out of the caller's object
\* (delete paramsOrOpts.cause) instead of copying the other keys
ArgumentsAfterDeletingCause(a1, a2, a3) ==
    IF a2.t = "object" /\ Cause \in OwnKeys(a2) THEN <<a1, Obj(RestOf(a2)), a3>>
    ELSE <<a1, a2, a3>>

\* the caller's argument values once the constructor is over: lines 39-73
\* read them (typeof, ?.cause, "cause" in, the destructuring of line 56 that
\* copies into rest, interpolate) and assign to no property of them
ArgumentsAfter(a1, a2, a3) == <<a1, a2, a3>>

\* the record of a call new families[f](a1, a2, a3): the arguments, the
\* constructor's locals message, params and cause (lines 40-63), and the
\* arguments as the call leaves them
NewCall(f, a1, a2, a3) ==
    [op |-> "new", family |-> f, a1 |-> a1, a2 |-> a2, a3 |-> a3,
     resolved |-> ResolveArgs(families[f].defaultMessage, a1, a2, a3),
     after |-> ArgumentsAfter(a1, a2, a3)]

(***************************************************************************)
(* Building a family on its own: message templates made of a few pieces.   *)
(***************************************************************************)
MessagePieces ==
    { <<"{","c","a","u","s","e","}">>, <<"{","a","}">>, <<"{">>, <<"}">>,
      <<"c","a","u","s","e">>, <<"{","c">>, <<"a","u","s","e","}">>, <<" ">> }

Messages == Pieced(MessagePieces, MaxPieces) \cup {S_failed_cause}

DefineInputs ==
    {[code |-> c, message |-> m, status |-> 500] :
        c \in {<<"B","A","D">>}, m \in Messages}

InitDefine ==
    /\ Idle
    /\ call \in {[op |-> "definition", definition |-> d] : d \in DefineInputs}

Define ==
    /\ call.op = "definition"
    /\ BuildStep(call.definition)
    /\ call' = [op |-> "createErrorClass", definition |-> call.definition]

NextDefine == Define

SpecDefine == InitDefine /\ [][NextDefine]_vars

\* sub occurs in s
Contains(s, sub) ==
    \E i \in 1..(Len(s) - Len(sub) + 1) : SubSeq(s, i, i + Len(sub) - 1) = sub

C1_Placeholder == <<"{","c","a","u","s","e","}">>

\* C1: createErrorClass throws the definition error for every definition whose
\* message contains {cause}, wherever it stands and whatever other placeholders
\* there are, and no family is returned then.
C1_ReservedRejected ==
    (call.op = "createErrorClass" /\ Contains(call.definition.message, C1_Placeholder))
    => /\ thrown = DefinitionError(call.definition.code, Cause)
       /\ families = <<>>

C1_Witness ==
    /\ call.op = "createErrorClass"
    /\ call.definition.message = <<"{","a","}"," ","{","c","a","u","s","e","}">>
    /\ thrown.kind = "Error"
    /\ families = <<>>

(***************************************************************************)
(* The constructor on its own: one definition, one call.                   *)
(***************************************************************************)
CauseValues ==
    {Undefined, Null, Bool(FALSE), Num(0), Str(<<>>), Str(<<"w">>), ErrorValue(S_root)}

CtorDefinitions ==
    { [code |-> S_NOT_FOUND, message |-> S_a_and_b, status |-> 404],
      [code |-> <<"E">>, message |-> S_ok, status |-> 500],
      [code |-> <<"B","A","D">>, message |-> S_failed_cause, status |-> 500] }

One(k, v) == [x \in {k} |-> v]

Two(k1, v1, k2, v2) == [x \in {k1, k2} |-> IF x = k1 THEN v1 ELSE v2]

CtorFirstArgs ==
    { Undefined, Null, Str(S_x_happened), Str(S_a_bar_cause), Str(S_valueOf),
      Obj(<<>>),
      Obj(One(K_a, Str(S_hello))),
      Obj(Two(K_a, Str(S_hello), Cause, Str(<<"w">>))) }

CtorSecondArgs ==
    { Undefined, Null, Str(<<"s">>), Obj(<<>>),
      Obj(One(K_x, Str(S_something))), Obj(One(K_a, Str(<<"u">>))) }
    \cup {Obj(One(Cause, c)) : c \in CauseValues}
    \cup {Obj(Two(K_x, Str(S_something), Cause, c)) : c \in CauseValues}

CtorThirdArgs ==
    { Undefined, Null, Obj(<<>>), Obj(Two(K_x, Str(<<"z">>), Cause, ErrorValue(S_root))) }
    \cup {Obj(One(Cause, c)) : c \in CauseValues}

InitCtor ==
    /\ Idle
    /\ call \in {[op |-> "arguments", definition |-> d, a1 |-> a1, a2 |-> a2, a3 |-> a3] :
                    d \in CtorDefinitions, a1 \in CtorFirstArgs,
                    a2 \in CtorSecondArgs, a3 \in CtorThirdArgs}

CtorDefine ==
    /\ call.op = "arguments"
    /\ BuildStep(call.definition)
    /\ call' = [call EXCEPT !.op = "createErrorClass"]

CtorNew ==
    /\ call.op = "createErrorClass"
    /\ Len(families) = 1
    /\ NewStep(1, call.a1, call.a2, call.a3)
    /\ call' = NewCall(1, call.a1, call.a2, call.a3)

NextCtor == CtorDefine \/ CtorNew

SpecCtor == InitCtor /\ [][NextCtor]_vars

(***************************************************************************)
(* The library as a whole: families and instances accumulate.              *)
(***************************************************************************)
Definitions ==
    { [code |-> S_NOT_FOUND, message |-> S_a_and_b, status |-> 404],
      [code |-> <<"E">>, message |-> S_ok, status |-> 500],
      [code |-> <<"B","A","D">>, message |-> S_failed_cause, status |-> 500] }

\* one call of each shape the test suite constructs instances with
CallShapes ==
    { <<Undefined, Undefined, Undefined>>,
      <<Obj(One(K_a, Str(S_hello))), Undefined, Undefined>>,
      <<Obj(One(K_a, Str(S_hello))), Obj(One(Cause, ErrorValue(S_root))), Undefined>>,
      <<Str(S_x_happened), Undefined, Undefined>>,
      <<Str(S_x_happened), Obj(One(K_x, Str(S_something))), Undefined>>,
      <<Str(S_x_happened), Obj(Two(K_x, Str(S_something), Cause, Null)), Undefined>>,
      <<Str(S_x_happened), Obj(One(K_x, Str(S_something))),
        Obj(One(Cause, ErrorValue(S_root)))>> }

Init ==
    /\ Idle
    /\ call = [op |-> "none"]

CreateErrorClass ==
    /\ Len(families) < MaxFamilies
    /\ \E d \in Definitions :
          /\ BuildStep(d)
          /\ call' = [op |-> "createErrorClass", definition |-> d]

New ==
    /\ Len(instances) < MaxInstances
    /\ \E f \in DOMAIN families, args \in CallShapes :
          /\ NewStep(f, args[1], args[2], args[3])
          /\ call' = NewCall(f, args[1], args[2], args[3])

Next == CreateErrorClass \/ New

Spec == Init /\ [][Next]_vars

(***************************************************************************)
(* Claims about the constructor.                                           *)
(***************************************************************************)
\* a call of the constructor that returned an instance
Constructed == call.op = "new" /\ thrown = NoThrow

\* the instance the last call constructed
Latest == instances[Len(instances)]

\* the second argument was treated as an options value: its cause was
\* extracted and is no parameter
TreatedAsOptions ==
    /\ call.resolved.cause = Get(call.a2, Cause)
    /\ call.resolved.params =
          (IF OwnKeys(call.a2) \ {Cause} = {} THEN Undefined ELSE Obj(RestOf(call.a2)))
    /\ Latest.cause = Get(call.a2, Cause)

\* the second argument was treated as a parameter set: the whole object is
\* what the message is interpolated with
TreatedAsParams ==
    /\ call.resolved.params = call.a2
    /\ Latest.message = interpolate(call.resolved.message, call.a2)

C2_Case == Constructed /\ call.a1.t = "string" /\ call.a2.t = "object"

C3_InstanceFields ==
    \A i \in DOMAIN instances :
        LET klass == families[instances[i].family]
        IN  /\ instances[i].code = klass.code
            /\ instances[i].status = klass.status
            /\ instances[i].name = toPascalCase(klass.code)

C3_Witness ==
    /\ Len(instances) = 2
    /\ instances[1].code = S_NOT_FOUND /\ instances[1].status = 404
    /\ instances[1].name = S_NotFound /\ instances[1].hasCause
    /\ instances[2].code = <<"E">> /\ instances[2].status = 500
    /\ instances[2].name = <<"E">> /\ ~instances[2].hasCause

\* the options object of a call, by the constructor's signatures
\* (params, opts), (message, opts) and (message, params, opts); Undefined when
\* the call has none
OptionsArgument ==
    IF IsObject(call.a1) THEN (IF call.a2.t = "object" THEN call.a2 ELSE Undefined)
    ELSE IF call.a2.t # "object" THEN Undefined
    ELSE IF call.a3 # Undefined THEN call.a3
    ELSE IF Cause \in OwnKeys(call.a2) THEN call.a2
    ELSE Undefined

\* the cause the call supplies: Undefined when there is no options object or
\* it has no cause
SuppliedCause ==
    IF OptionsArgument.t = "object" /\ Cause \in OwnKeys(OptionsArgument)
    THEN OptionsArgument.v[Cause] ELSE Undefined

\* C5: a cause supplied through an options object is the instance's cause
\* exactly as given, false, 0, the empty string and null included; the
\* instance's cause is undefined only when none was supplied.
C5_CauseRoundTrip ==
    Constructed =>
        /\ Latest.cause = SuppliedCause
        /\ Latest.hasCause <=> SuppliedCause # Undefined

C5_Witness ==
    /\ Constructed
    /\ call.a1 = Str(S_x_happened)
    /\ call.a2 = Obj(One(Cause, Num(0)))
    /\ call.a3 = Undefined
    /\ Latest.hasCause /\ Latest.cause = Num(0)

\* C7: when the first argument is a parameter object, the message is the
\* definition's template interpolated with it, and the cause is that of the
\* second-argument options object, absent when there is none.
C7_ParamsFirst ==
    (call.op = "new" /\ call.a1.t = "object") =>
        /\ thrown = NoThrow
        /\ Latest.message = interpolate(families[call.family].defaultMessage, call.a1)
        /\ Latest.cause =
              (IF call.a2.t = "object" THEN Get(call.a2, Cause) ELSE Undefined)

C7_Witness ==
    /\ Constructed
    /\ call.a1 = Obj(One(K_a, Str(S_hello)))
    /\ call.a2 = Obj(One(Cause, ErrorValue(S_root)))
    /\ Latest.message = S_hello_and_b
    /\ Latest.cause = ErrorValue(S_root)

\* C8: called as (string, ParameterSet) with no "cause" key in the set, the
\* message is the custom string interpolated with the set, not the default
\* template, and there is no cause.
C8_CustomWithParams ==
    (call.op = "new" /\ call.a1.t = "string" /\ call.a2.t = "object"
        /\ Cause \notin OwnKeys(call.a2) /\ call.a3 = Undefined)
    => /\ thrown = NoThrow
       /\ Latest.message = interpolate(call.a1.v, call.a2)
       /\ ~Latest.hasCause /\ Latest.cause = Undefined

C8_Witness ==
    /\ Constructed
    /\ families[call.family].defaultMessage = S_a_and_b
    /\ call.a1 = Str(S_x_happened)
    /\ call.a2 = Obj(One(K_x, Str(S_something)))
    /\ call.a3 = Undefined
    /\ Latest.message = S_something_happened
    /\ ~Latest.hasCause

\* C9: called as (string, object) where the object has the key "cause" and
\* other keys, the cause is the object's cause and the message is the custom
\* string interpolated with exactly the other keys.
C9_MixedForm ==
    (call.op = "new" /\ call.a1.t = "string" /\ call.a2.t = "object"
        /\ Cause \in OwnKeys(call.a2) /\ OwnKeys(call.a2) # {Cause}
        /\ call.a3 = Undefined)
    => /\ thrown = NoThrow
       /\ Latest.cause = call.a2.v[Cause]
       /\ Latest.message =
             interpolate(call.a1.v, Obj([k \in OwnKeys(call.a2) \ {Cause} |-> call.a2.v[k]]))

C9_Witness ==
    /\ Constructed
    /\ call.a1 = Str(S_x_happened)
    /\ call.a2 = Obj(Two(K_x, Str(S_something), Cause, ErrorValue(S_root)))
    /\ call.a3 = Undefined
    /\ Latest.message = S_something_happened
    /\ Latest.cause = ErrorValue(S_root)

\* C10: called as (string, ParameterSet, {cause}), the message is the custom
\* string interpolated with the second argument only and the cause is the
\* third argument's cause only.
C10_ThreeArgForm ==
    (call.op = "new" /\ call.a1.t = "string" /\ call.a2.t = "object"
        /\ call.a3.t = "object")
    => /\ thrown = NoThrow
       /\ Latest.message = interpolate(call.a1.v, call.a2)
       /\ Latest.cause = Get(call.a3, Cause)

C10_Witness ==
    /\ Constructed
    /\ call.a1 = Str(S_x_happened)
    /\ call.a2 = Obj(Two(K_x, Str(S_something), Cause, Str(<<"w">>)))
    /\ call.a3 = Obj(Two(K_x, Str(<<"z">>), Cause, ErrorValue(S_root)))
    /\ Latest.message = S_something_happened
    /\ Latest.cause = ErrorValue(S_root)

\* the message the constructor starts from: the custom string when the first
\* argument is one, the definition's template otherwise
C11_ResolvedMessage ==
    IF call.a1.t = "string" THEN call.a1.v
    ELSE families[call.family].defaultMessage

\* the call shapes (), (string), (string, {cause}) and (undefined, {cause})
C11_Case ==
    /\ call.op = "new"
    /\ call.a1.t \in {"string", "undefined"}
    /\ call.a2 = Undefined \/ (call.a2.t = "object" /\ OwnKeys(call.a2) = {Cause})
    /\ call.a3 = Undefined

\* C11: when no parameter set is resolved - (), (string), (string, {cause})
\* with cause as the only key, (undefined, {cause}) - the message is the
\* resolved message character for character, its placeholders left literal.
C11_MessageVerbatim ==
    C11_Case =>
        /\ thrown = NoThrow
        /\ call.resolved.params = Undefined
        /\ Latest.message = C11_ResolvedMessage

C11_Witness ==
    /\ C11_Case /\ thrown = NoThrow
    /\ call.a1 = Str(S_a_bar_cause)
    /\ call.a2 = Obj(One(Cause, ErrorValue(S_root)))
    /\ Latest.message = S_a_bar_cause
    /\ Latest.cause = ErrorValue(S_root)

\* C12: once a family is built, constructing an instance never raises, for
\* any combination of up to three positional arguments.
C12_ConstructNeverRaises == call.op = "new" => thrown = NoThrow

\* a parameter set stands in first position, or in second position of the
\* three-argument form, and has the key "cause"
C13_Case ==
    /\ call.op = "new"
    /\ \/ call.a1.t = "object" /\ Cause \in OwnKeys(call.a1)
       \/ /\ call.a1.t = "string" /\ call.a2.t = "object" /\ call.a3.t = "object"
          /\ Cause \in OwnKeys(call.a2)

\* C13: a parameter set that contains the key "cause" is rejected at
\* construction time, wherever a parameter set is accepted.
C13_CauseKeyRejected == C13_Case => thrown # NoThrow

(***************************************************************************)
(* Claims about the families.                                              *)
(***************************************************************************)
\* C14: the family exposes, on the type itself and without any instance, code
\* equal to the definition's code and name equal to the derived name.
C14_StaticCodeAndName ==
    \A f \in DOMAIN families :
        /\ StaticProperty(families[f], K_code) = Str(families[f].code)
        /\ StaticProperty(families[f], K_name) = Str(toPascalCase(families[f].code))

\* the name half of C14 alone
C14_StaticName ==
    \A f \in DOMAIN families :
        StaticProperty(families[f], K_name) = Str(toPascalCase(families[f].code))

\* C16: an instance passes instanceof for its own family and for Error, and
\* fails it for every family built from a definition with a different code.
C16_InstanceOf ==
    Constructed =>
        /\ InstanceOf(Latest, FamilyCtor(call.family))
        /\ InstanceOf(Latest, ErrorCtor)
        /\ \A g \in DOMAIN families :
              families[g].code # families[call.family].code
              => ~InstanceOf(Latest, FamilyCtor(g))

C16_Witness ==
    /\ Constructed
    /\ Len(families) = 2
    /\ families[1].code = S_NOT_FOUND /\ families[2].code = <<"E">>
    /\ call.family = 2
    /\ InstanceOf(Latest, FamilyCtor(2))
    /\ ~InstanceOf(Latest, FamilyCtor(1))

(***************************************************************************)
(* isCustomError (src/index.js 89-95) on its own.  A candidate is          *)
(* [kind, props]: kind says what the value is (undefined, null, a          *)
(* primitive, a plain object, an Error object), props are its properties.  *)
(***************************************************************************)
\* typeof x
TypeOf(x) ==
    CASE x.t = "null" -> "object"
      [] x.t = "error" -> "object"
      [] OTHER -> x.t

\* error instanceof Error
IsErrorObject(candidate) == candidate.kind = "error"

\* error.key, read only once instanceof has shown error to be an object
PropertyOf(candidate, key) ==
    IF key \in DOMAIN candidate.props THEN candidate.props[key] ELSE Undefined

\* a mutant that leaves the instanceof test out
isCustomErrorDuckTyped(error) ==
    /\ error.kind \in {"object", "error"}
    /\ TypeOf(PropertyOf(error, K_code)) = "string"
    /\ TypeOf(PropertyOf(error, K_status)) = "number"

isCustomError(error) ==
    /\ IsErrorObject(error)
    /\ TypeOf(PropertyOf(error, K_code)) = "string"
    /\ TypeOf(PropertyOf(error, K_status)) = "number"

\* an instance of a family as a candidate: an Error object with the class
\* fields and the message
InstanceAsCandidate(instance) ==
    [kind |-> "error",
     props |-> [k \in {K_code, K_status, K_name, <<"m","e","s","s","a","g","e">>} |->
                  CASE k = K_code -> Str(instance.code)
                    [] k = K_status -> Num(instance.status)
                    [] k = K_name -> Str(instance.name)
                    [] OTHER -> Str(instance.message)]]

CodeValues ==
    {Str(<<"T","E","S","T">>), Str(<<>>), Num(404), Null, Undefined}

StatusValues == {Num(500), Num(0), Str(<<"5","0","0">>), Null, Undefined}

\* the property sets over code and status
CandidateProps ==
    {<<>>}
    \cup {One(K_code, c) : c \in CodeValues}
    \cup {One(K_status, n) : n \in StatusValues}
    \cup {Two(K_code, c, K_status, n) : c \in CodeValues, n \in StatusValues}

FamilyInstances ==
    {InstanceAsCandidate(
        Construct(1, createErrorClass(d).klass, Undefined, Undefined, Undefined).instance) :
        d \in {d \in CtorDefinitions : createErrorClass(d).thrown = NoThrow}}

Candidates ==
    {[kind |-> k, props |-> <<>>] : k \in {"undefined", "null", "primitive"}}
    \cup {[kind |-> k, props |-> ps] : k \in {"object", "error"}, ps \in CandidateProps}
    \cup FamilyInstances

InitIsCustomError ==
    /\ Idle
    /\ call \in {[op |-> "candidate", error |-> x] : x \in Candidates}

IsCustomError ==
    /\ call.op = "candidate"
    /\ call' = [op |-> "isCustomError", error |-> call.error,
                result |-> isCustomError(call.error)]
    /\ UNCHANGED <<families, instances, thrown>>

NextIsCustomError == IsCustomError

SpecIsCustomError == InitIsCustomError /\ [][NextIsCustomError]_vars

\* the candidate has the property and its value is of the given kind
C15_Has(candidate, key, tag) ==
    key \in DOMAIN candidate.props /\ candidate.props[key].t = tag

\* C15: isCustomError(v) is true if and only if v is an Error object whose
\* code is a string and whose status is a number, whichever family (or none)
\* produced it; it is false for null, undefined, non-Error objects with code
\* and status, and Errors with a missing or mistyped code or status.
C15_IsCustomError ==
    call.op = "isCustomError" =>
        (call.result <=>
            /\ call.error.kind = "error"
            /\ C15_Has(call.error, K_code, "string")
            /\ C15_Has(call.error, K_status, "number"))

C15_Witness ==
    /\ call.op = "isCustomError"
    /\ call.error \in FamilyInstances
    /\ call.error.props[K_code] = Str(S_NOT_FOUND)
    /\ call.result

C15_WitnessFalse ==
    /\ call.op = "isCustomError"
    /\ call.error = [kind |-> "object",
                     props |-> Two(K_code, Str(<<"T","E","S","T">>), K_status, Num(500))]
    /\ ~call.result

(***************************************************************************)
(* createErrorClasses (src/index.js 81-87) on its own.  classes maps a     *)
(* code to the index in families of the class stored under it.             *)
(***************************************************************************)
MaxBatch == 3

\* a mutant in which a key that is already there keeps its class
AssignKeepFirst(classes, key, class) ==
    [k \in DOMAIN classes \cup {key} |->
        IF k \in DOMAIN classes THEN classes[k] ELSE class]

\* classes[key] = class
Assign(classes, key, class) ==
    [k \in DOMAIN classes \cup {key} |-> IF k = key THEN class ELSE classes[k]]

\* a mutant whose loop swallows the error of a definition and goes on
LoopBodySkipping(acc, def) ==
    LET r == createErrorClass(def)
    IN  IF r.thrown # NoThrow THEN acc
        ELSE [thrown |-> NoThrow,
              built |-> Append(acc.built, r.klass),
              classes |-> Assign(acc.classes, def.code, Len(acc.built) + 1)]

\* line 84: one turn of the loop; acc holds the classes built so far and the
\* object being filled, and an error of createErrorClass leaves the function
LoopBody(acc, def) ==
    LET r == createErrorClass(def)
    IN  IF r.thrown # NoThrow
        THEN [thrown |-> r.thrown, built |-> acc.built, classes |-> acc.classes]
        ELSE [thrown |-> NoThrow,
              built |-> Append(acc.built, r.klass),
              classes |-> Assign(acc.classes, def.code, Len(acc.built) + 1)]

RECURSIVE LoopFrom(_, _, _)
\* lines 83-85: the loop from the i-th definition on, over until an error
LoopFrom(definitions, i, acc) ==
    IF i > Len(definitions) \/ acc.thrown # NoThrow THEN acc
    ELSE LoopFrom(definitions, i + 1, LoopBody(acc, definitions[i]))

\* lines 81-87: returned says whether line 86 was reached, classes is the
\* object it returns, built are the classes the calls of line 84 created
createErrorClasses(definitions) ==
    LET acc == LoopFrom(definitions, 1,
                        [thrown |-> NoThrow, built |-> <<>>, classes |-> <<>>])
    IN  [thrown |-> acc.thrown,
         returned |-> acc.thrown = NoThrow,
         classes |-> IF acc.thrown = NoThrow THEN acc.classes ELSE <<>>,
         built |-> acc.built]

\* the definitions of the whole library and one more with a code used twice
BatchDefinitions ==
    Definitions \cup {[code |-> S_NOT_FOUND, message |-> S_ok, status |-> 500]}

DefinitionLists == SeqsUpTo(BatchDefinitions, MaxBatch)

InitBatch ==
    /\ Idle
    /\ call \in {[op |-> "definitions", definitions |-> ds] : ds \in DefinitionLists}

CreateErrorClasses ==
    /\ call.op = "definitions"
    /\ LET r == createErrorClasses(call.definitions)
       IN  /\ thrown' = r.thrown
           /\ families' = r.built
           /\ call' = [op |-> "createErrorClasses",
                       definitions |-> call.definitions,
                       returned |-> r.returned,
                       classes |-> r.classes]
    /\ UNCHANGED instances

NextBatch == CreateErrorClasses

SpecBatch == InitBatch /\ [][NextBatch]_vars

\* the places of the list whose definition has the code
C17_Places(code) ==
    {i \in DOMAIN call.definitions : call.definitions[i].code = code}

\* the last of a non-empty set of places
C17_Last(places) == CHOOSE i \in places : \A j \in places : j <= i

\* C17: batch construction over an ordered list of definitions returns a
\* mapping with one family per definition keyed by the definition's code;
\* when two definitions share a code, the entry under that code is the family
\* built from the later definition in list order.
C17_BatchKeyedByCode ==
    (call.op = "createErrorClasses" /\ thrown = NoThrow) =>
        /\ call.returned
        /\ Len(families) = Len(call.definitions)
        /\ \A i \in DOMAIN call.definitions :
              families[i] = createErrorClass(call.definitions[i]).klass
        /\ DOMAIN call.classes =
              {call.definitions[i].code : i \in DOMAIN call.definitions}
        /\ \A c \in DOMAIN call.classes :
              call.classes[c] = C17_Last(C17_Places(c))

C17_Witness ==
    /\ call.op = "createErrorClasses"
    /\ thrown = NoThrow
    /\ Len(call.definitions) = 3
    /\ call.definitions[1] = [code |-> S_NOT_FOUND, message |-> S_a_and_b, status |-> 404]
    /\ call.definitions[2].code = <<"E">>
    /\ call.definitions[3] = [code |-> S_NOT_FOUND, message |-> S_ok, status |-> 500]
    /\ call.classes[S_NOT_FOUND] = 3
    /\ families[call.classes[S_NOT_FOUND]].defaultMessage = S_ok
    /\ call.classes[<<"E">>] = 2

\* the places of the list whose definition uses {cause}
C18_Bad ==
    {i \in DOMAIN call.definitions :
        Contains(call.definitions[i].message, C1_Placeholder)}

\* C18: batch construction raises the definition error as soon as any
\* definition in the list uses the {cause} placeholder, wherever that
\* definition stands in the list, and then returns no mapping at all: the
\* caller never receives a partial set of families.
C18_BatchRejects ==
    (call.op = "createErrorClasses" /\ C18_Bad # {}) =>
        LET first == CHOOSE i \in C18_Bad : \A j \in C18_Bad : i <= j
        IN  /\ thrown = DefinitionError(call.definitions[first].code, Cause)
            /\ ~call.returned
            /\ call.classes = <<>>
            /\ Len(families) = first - 1

C18_Witness ==
    /\ call.op = "createErrorClasses"
    /\ Len(call.definitions) = 3
    /\ C18_Bad = {3}
    /\ thrown = DefinitionError(<<"B","A","D">>, Cause)
    /\ ~call.returned
    /\ Len(families) = 2

(***************************************************************************)
(* The constructor types of the declaration file (src/unnamed/part_001).   *)
(* A type of string keys is the set of the keys; never is the empty set.   *)
(* An argument expression is [keys, fresh]: the keys of an object whose    *)
(* values are strings, and whether it is written as an object literal at   *)
(* the call (only then are excess properties checked).                     *)
(***************************************************************************)
RECURSIVE IndexOfFrom(_, _, _)
\* the first place at or after i where c stands in s, 0 if there is none:
\* how a placeholder of a template literal type is matched up to the next
\* literal text
IndexOfFrom(s, c, i) ==
    IF i > Len(s) THEN 0
    ELSE IF s[i] = c THEN i
    ELSE IndexOfFrom(s, c, i + 1)

RECURSIVE ExtractParams(_)
\* lines 1-4: T extends `${string}{${infer Param}}${infer Rest}`
\*              ? Param | ExtractParams<Rest> : never
ExtractParams(T) ==
    LET open == IndexOfFrom(T, "{", 1)
        close == IF open = 0 THEN 0 ELSE IndexOfFrom(T, "}", open + 1)
    IN  IF close = 0 THEN {}
        ELSE {SubSeq(T, open + 1, close - 1)}
                \cup ExtractParams(SubSeq(T, close + 1, Len(T)))

\* line 11
ForbiddenParamKeys == {Cause}

\* lines 13-18: never, or Record<ExtractParams<T>, string>
ParamsFor(T) ==
    IF ExtractParams(T) = {} THEN [never |-> TRUE, keys |-> {}]
    ELSE IF ExtractParams(T) \cap ForbiddenParamKeys = {}
         THEN [never |-> FALSE, keys |-> ExtractParams(T)]
         ELSE [never |-> TRUE, keys |-> {}]

\* lines 20-21
HasParams(T) == ExtractParams(T) # {}

\* lines 73-78: the definition gets constructor types at all
ValidateDefinition(T) == ExtractParams(T) \cap ForbiddenParamKeys = {}

\* the argument is assignable to the parameter type: nothing is assignable to
\* never; a Record needs each of its keys, and an object literal may have no
\* other key
AssignableTo(argument, type) ==
    /\ ~type.never
    /\ type.keys \subseteq argument.keys
    /\ argument.fresh => argument.keys \subseteq type.keys

\* lines 46-71: new F(argument) and new F(argument, opts) with an object as
\* first argument type-check; only the overloads of lines 50-54 take an
\* object first, the others take a string or undefined
AcceptsParams(T, argument) ==
    /\ ValidateDefinition(T)
    /\ HasParams(T)
    /\ AssignableTo(argument, ParamsFor(T))

ArgumentKeys == {K_a, K_b, K_x}

ArgumentTypes == [keys : SUBSET ArgumentKeys, fresh : BOOLEAN, opts : BOOLEAN]

InitContract ==
    /\ Idle
    /\ call \in {[op |-> "expression", template |-> t, argument |-> a] :
                    t \in Templates, a \in ArgumentTypes}

TypeCheck ==
    /\ call.op = "expression"
    /\ call' = [op |-> "typecheck", template |-> call.template,
                argument |-> call.argument,
                accepted |-> AcceptsParams(call.template, call.argument)]
    /\ UNCHANGED <<families, instances, thrown>>

NextContract == TypeCheck

SpecContract == InitContract /\ [][NextContract]_vars

\* the placeholders the library replaces in the template
C19_Placeholders == Range(matchAll(call.template))

\* C19: the static constructor contract derived from a template accepts a
\* parameter object with the default message if and only if the object's key
\* set equals the template's placeholder set (a missing, extra or misspelled
\* key is rejected), and for a template with no placeholders accepts no
\* parameter object.
C19_StaticContract ==
    (call.op = "typecheck" /\ validateMessage(<<"E">>, call.template) = NoThrow) =>
        (call.accepted <=>
            (C19_Placeholders # {} /\ call.argument.keys = C19_Placeholders))

\* the same for object literals and templates whose braces all belong to
\* placeholders
C19_LiteralArguments ==
    (/\ call.op = "typecheck"
     /\ call.argument.fresh
     /\ ExtractParams(call.template) = C19_Placeholders) =>
        (call.accepted <=>
            (C19_Placeholders # {} /\ call.argument.keys = C19_Placeholders))

(***************************************************************************)
(* What a construction leaves alone.                                       *)
(***************************************************************************)
\* C20: constructing an instance changes nothing but the new instance: the
\* definition, the family, every previously constructed instance and the
\* argument objects passed by the caller (including an options object from
\* which the cause is extracted in the mixed form, which keeps its cause key)
\* are unchanged afterwards.
C20_Frame ==
    [][call'.op = "new" =>
          /\ families' = families
          /\ Len(instances') \in {Len(instances), Len(instances) + 1}
          /\ SubSeq(instances', 1, Len(instances)) = instances
          /\ call'.after = <<call'.a1, call'.a2, call'.a3>>]_vars

C20_Witness ==
    /\ call.op = "new"
    /\ thrown = NoThrow
    /\ Len(instances) = 2
    /\ call.a2 = Obj(Two(K_x, Str(S_something), Cause, Null))
    /\ call.a3 = Undefined
    /\ Latest.hasCause
    /\ Cause \in OwnKeys(call.after[2])

(***************************************************************************)
(* Interpolation as one pass over the template.                            *)
(***************************************************************************)
RECURSIVE C21_LiteralsFrom(_, _, _)
\* the texts of s from position i on that stand between the placeholder
\* occurrences, the first of them starting with cur
C21_LiteralsFrom(s, i, cur) ==
    IF i > Len(s) THEN <<cur>>
    ELSE LET e == MatchEnd(s, i)
         IN  IF e > 0 THEN <<cur>> \o C21_LiteralsFrom(s, e + 1, <<>>)
             ELSE C21_LiteralsFrom(s, i + 1, Append(cur, s[i]))

\* what stands in the result for one occurrence of {key}
C21_Substitute(key, params) ==
    IF HasProperty(params, key) THEN ToStr(Get(params, key))
    ELSE <<"{">> \o key \o <<"}">>

RECURSIVE C21_Interleave(_, _, _, _)
\* literals[i], then the substitute of keys[i], and so on to the last literal
C21_Interleave(literals, keys, params, i) ==
    IF i > Len(keys) THEN literals[i]
    ELSE literals[i] \o C21_Substitute(keys[i], params)
            \o C21_Interleave(literals, keys, params, i + 1)

\* C21: interpolation is a single left-to-right pass: every occurrence of the
\* same placeholder is replaced, and a substituted value that itself contains
\* a {name} token is inserted literally and never expanded again, so
\* interpolate terminates with one substitution per placeholder occurrence of
\* the template.
C21_SinglePass ==
    call.op = "interpolate" =>
        LET keys == matchAll(call.template)
            literals == C21_LiteralsFrom(call.template, 1, <<>>)
        IN  /\ Len(literals) = Len(keys) + 1
            /\ call.result = C21_Interleave(literals, keys, call.params, 1)

C21_Witness ==
    /\ call.op = "interpolate"
    /\ call.template = <<"{","a","}">> \o <<" ","a","n","d"," ">> \o <<"{","a","}">>
    /\ call.params = Obj(Two(K_a, Str(<<"{","b","}">>), K_b, Str(S_hello)))
    /\ call.result = <<"{","b","}">> \o <<" ","a","n","d"," ">> \o <<"{","b","}">>

(***************************************************************************)
(* The parameter-object-first form: what each argument is used for.        *)
(***************************************************************************)
\* the instance the same family would construct from other arguments
C22_Instance(a1, a2) ==
    Construct(call.family, families[call.family], a1, a2, call.a3).instance

\* C22: when the first argument is a parameter object, a "cause" key inside
\* that object never becomes the instance's cause (the cause comes only from
\* the second argument), and keys of the second argument other than "cause"
\* are never used for interpolation.
C22_FirstFormSeparation ==
    (call.op = "new" /\ call.a1.t = "object") =>
        /\ thrown = NoThrow
        /\ Latest.cause =
              (IF call.a2.t = "object" /\ Cause \in OwnKeys(call.a2)
               THEN call.a2.v[Cause] ELSE Undefined)
        /\ Latest.hasCause <=> Latest.cause # Undefined
        /\ Latest.cause = C22_Instance(Obj(RestOf(call.a1)), call.a2).cause
        /\ Latest.message = C22_Instance(call.a1, Undefined).message

C22_Witness ==
    /\ Constructed
    /\ call.a1 = Obj(Two(K_a, Str(S_hello), Cause, Str(<<"w">>)))
    /\ call.a2 = Obj(One(K_a, Str(<<"u">>)))
    /\ ~Latest.hasCause
    /\ Latest.message = S_hello_and_b
====
